---- MODULE Spec2Model ----
(***************************************************************************)
(* Model of scripts/test-invalid-client-hello-w-record-overflow.py: the    *)
(* harness controller of main() -- selection, sampling, the run loop, the  *)
(* classification of each execution against the expected-failure registry *)
(* and the final report with the exit status (specification Spec), with   *)
(* the option loop in front of it (specification SpecOpts), and the        *)
(* scenario generator of lines 108-353 (specification SpecGen).            *)
(*                                                                         *)
(* Python values are represented as follows.  None and an optional value   *)
(* are the empty tuple <<>> and the one-element tuple <<v>>.  A text (the  *)
(* str() of an exception, a -X message) is a tuple of words and `a in b`   *)
(* on texts is the contiguous-subsequence test.  The run_only set of the   *)
(* code is None when no probe name is given; both None and the empty set   *)
(* are false in `if run_only:`, so None is represented by {}.              *)
(***************************************************************************)
EXTENDS Integers, Sequences, FiniteSets, TLC

VARIABLES
    opt_n,              \* the argument of -n: <<>> when -n is not given, else <<n>>
    run_only,           \* set(args), {} for None
    run_exclude,        \* names given with -e
    expected_failures,  \* name -> <<>> (None) or <<message>>
    num_limit,
    sampled_tests,      \* names, in the order sample() returned them
    ordered_tests,
    idx,                \* position of the for loop in ordered_tests
    c_name, res, exception,   \* locals of the latest loop iteration
    good, bad, xfail, xpass, failed, xpassed,
    total, skip,        \* TOTAL and SKIP lines of the report, <<>> until printed
    exit_status,        \* <<>> while the process runs, <<0>> or <<1>> once it ended
    pc,                 \* "opts", "rejected", "select", "run", "done", "crashed"
    executed,           \* history: names handed to Runner(...).run(), in order
    results,            \* history: what each run did, [name, res, exception]
    last_exp_tmp,       \* <<>> (None) or <<name of the latest -x>>
    dhe,                \* -d was given
    ems,                \* -M or --ems was given
    ciphers,            \* <<>> (None) or <<the cipher suite given with -C>>
    opts_log,           \* history: the options the option loop has processed
    ext,                \* extensions of the plain hellos; {} is None
    ext_renego_info,    \* extensions of the 'w/ext' hellos
    gen_conversations,  \* the conversations dict while lines 121-353 fill it
    n_assigned,         \* history: number of assignments to the dict
    gen_pc,             \* the statement of lines 108-353 that is next
    gen_i               \* position in the tuple of high bytes of a 16-bit sweep

\* the variables of the option loop
optvars == <<last_exp_tmp, dhe, ems, ciphers, opts_log>>

\* the variables of the scenario generator
genvars == <<ext, ext_renego_info, gen_conversations, n_assigned, gen_pc,
             gen_i>>

\* the variables the selection and the run loop neither read nor write
othervars == <<optvars, genvars>>

vars == <<opt_n, run_only, run_exclude, expected_failures, num_limit,
          sampled_tests, ordered_tests, idx, c_name, res, exception,
          good, bad, xfail, xpass, failed, xpassed, total, skip,
          exit_status, pc, executed, results, othervars>>

-----------------------------------------------------------------------------
(* Bounds of the model *)

\* Number of mutated conversations kept from the sweeps of lines 205-353.
NumFuzz == 1
\* Largest argument of -n that is tried (the smallest is -1).
MaxLimit == 2
\* Largest number of names on the command line: those given with -e, those
\* given with -x and the probe names, together.
MaxOpts == 2
\* Largest number of options the option loop is given.
MaxArgv == 3

\* num_limit = 500 at line 60.  The population built by lines 121-353 holds
\* more than 4000 conversations whatever -d and -M are, so the default is
\* smaller than the number of conversations sample() can draw from; the
\* population of the model is scaled down to 2 + NumFuzz names and the
\* default with it, keeping that relation.
DefaultLimit == 1

None == <<>>
Some(v) == <<v>>

Min(a, b) == IF a < b THEN a ELSE b

Last(s) == s[Len(s)]

Range(s) == {s[i] : i \in DOMAIN s}

\* a ^ b of Python on non-negative integers
RECURSIVE Xor(_, _)
Xor(a, b) ==
    IF a = 0 /\ b = 0 THEN 0
    ELSE (((a % 2) + (b % 2)) % 2) + (2 * Xor(a \div 2, b \div 2))

-----------------------------------------------------------------------------
(* The scenario population (keys of the conversations dict) *)

\* "Client Hello type fuzz to {0}".format(1 ^ i)
TypeFuzzName(i) == "Client Hello type fuzz to " \o ToString(Xor(1, i))

\* The keys of conversations: the two baselines and the first NumFuzz
\* conversations of the first sweep (for i in range(1, 0x100)).
conversations ==
    {"sanity", "sanity w/ext"} \cup {TypeFuzzName(i) : i \in 1..NumFuzz}

\* Names an operator can type after -e, -x or as a probe name: the keys of
\* the population and one name that is no key.
ArgNames == conversations \cup {"no such probe"}

\* str(exception) of the failures Runner.run() raises
ErrTexts ==
    { <<"Unexpected", "closure", "from", "peer">>,
      <<"Timeout", "when", "waiting">> }

\* messages given with -X: a part of the first text and of no other
XMessages == { <<"closure", "from">> }

-----------------------------------------------------------------------------
(* Pure pieces of main() *)

\* The generator's variables in the specifications that do not follow the
\* generator: the run of those works on the population `conversations`.
GenAtRest ==
    /\ ext = {} /\ ext_renego_info = {}
    /\ gen_conversations = <<>>
    /\ n_assigned = 0
    /\ gen_pc = "rest"
    /\ gen_i = 1

\* a in b, for texts
IsSubstring(a, b) ==
    \E k \in 0..(Len(b) - Len(a)) :
        \A j \in 1..Len(a) : b[k + j] = a[j]

\* Faulty variant of RegularTests: the exclusion set is not consulted.
RegularTestsNoExclude(only, exclude) ==
    IF only # {}
    THEN {k \in conversations : k \in only}
    ELSE {k \in conversations : k # "sanity"}

\* Faulty variant of RegularTests: the probe names are not looked at.
RegularTestsIgnoreOnly(only, exclude) ==
    {k \in conversations : k # "sanity" /\ k \notin exclude}

\* lines 368-374: the list sample() draws from (as a set: dict keys are distinct)
RegularTests(only, exclude) ==
    IF only # {}
    THEN {k \in conversations : k \in only}
    ELSE {k \in conversations : k # "sanity" /\ k \notin exclude}

\* Faulty variant of EffectiveLimit: a limit of zero is not replaced by
\* the size of the population.
EffectiveLimitZeroKept(n, only) ==
    IF only # {} /\ n > Cardinality(only) THEN Cardinality(only) ELSE n

\* lines 362-370: num_limit as sample() sees it
EffectiveLimit(n, only) ==
    LET n1 == IF n = 0 THEN Cardinality(conversations) ELSE n
    IN  IF only # {} /\ n1 > Cardinality(only) THEN Cardinality(only) ELSE n1

\* line 375: the second argument of sample()
SampleSize(limit, regular) == Min(limit, Cardinality(regular))

\* Faulty variant of Sample: drawing with replacement.
SampleWithReplacement(population, k) == [1..k -> population]

\* random.sample(population, k): every arrangement of k distinct elements
Sample(population, k) ==
    {s \in [1..k -> population] : \A i, j \in 1..k : i # j => s[i] # s[j]}

\* line 367
sanity_tests == <<"sanity">>

\* Faulty variant of OrderedTests: the closing sanity run is left out.
OrderedTestsNoLast(sampled) == sanity_tests \o sampled

\* line 376: chain(sanity_tests, sampled_tests, sanity_tests)
OrderedTests(sampled) == sanity_tests \o sampled \o sanity_tests

\* Faulty variant of TryRun: no except clause, a failure leaves the loop.
TryRunNoHandler(outcome) ==
    [res |-> outcome.res, exception |-> outcome.exception,
     raised |-> ~outcome.res]

\* lines 383-391: res and exception after the try statement; raised tells
\* whether the failure leaves the try statement instead of being handled.
TryRun(outcome) ==
    [res |-> outcome.res, exception |-> outcome.exception, raised |-> FALSE]

\* Faulty variant of Classify: a registered conversation that passes is
\* counted as a plain pass.
ClassifyXpassAsPass(st, name, r, exc) ==
    IF r
    THEN [st EXCEPT !.good = @ + 1]
    ELSE IF name \in DOMAIN expected_failures
            /\ ~(expected_failures[name] # None
                 /\ ~IsSubstring(expected_failures[name][1], exc))
         THEN [st EXCEPT !.xfail = @ + 1]
         ELSE [st EXCEPT !.bad = @ + 1, !.failed = Append(@, name)]

\* Faulty variant of Classify: the required substring is not looked at.
ClassifyIgnoreMessage(st, name, r, exc) ==
    IF name \in DOMAIN expected_failures
    THEN IF r
         THEN [st EXCEPT !.xpass = @ + 1, !.xpassed = Append(@, name)]
         ELSE [st EXCEPT !.xfail = @ + 1]
    ELSE IF r
         THEN [st EXCEPT !.good = @ + 1]
         ELSE [st EXCEPT !.bad = @ + 1, !.failed = Append(@, name)]

\* Faulty variant of Classify: an unexpected failure is counted but its
\* name is not put on the failed listing.
ClassifyFailNotListed(st, name, r, exc) ==
    IF name \in DOMAIN expected_failures
    THEN IF r
         THEN [st EXCEPT !.xpass = @ + 1, !.xpassed = Append(@, name)]
         ELSE IF expected_failures[name] # None
                 /\ ~IsSubstring(expected_failures[name][1], exc)
              THEN [st EXCEPT !.bad = @ + 1, !.failed = Append(@, name)]
              ELSE [st EXCEPT !.xfail = @ + 1]
    ELSE IF r
         THEN [st EXCEPT !.good = @ + 1]
         ELSE [st EXCEPT !.bad = @ + 1]

\* Faulty variant of Classify: an expected failure is counted in FAIL too.
ClassifyXfailCountsBad(st, name, r, exc) ==
    IF name \in DOMAIN expected_failures
    THEN IF r
         THEN [st EXCEPT !.xpass = @ + 1, !.xpassed = Append(@, name)]
         ELSE IF expected_failures[name] # None
                 /\ ~IsSubstring(expected_failures[name][1], exc)
              THEN [st EXCEPT !.bad = @ + 1, !.failed = Append(@, name)]
              ELSE [st EXCEPT !.xfail = @ + 1, !.bad = @ + 1]
    ELSE IF r
         THEN [st EXCEPT !.good = @ + 1]
         ELSE [st EXCEPT !.bad = @ + 1, !.failed = Append(@, name)]

\* Faulty variant of Classify: the name of an expected failure is put on
\* the failed listing.
ClassifyXfailListed(st, name, r, exc) ==
    IF name \in DOMAIN expected_failures
    THEN IF r
         THEN [st EXCEPT !.xpass = @ + 1, !.xpassed = Append(@, name)]
         ELSE IF expected_failures[name] # None
                 /\ ~IsSubstring(expected_failures[name][1], exc)
              THEN [st EXCEPT !.bad = @ + 1, !.failed = Append(@, name)]
              ELSE [st EXCEPT !.xfail = @ + 1, !.failed = Append(@, name)]
    ELSE IF r
         THEN [st EXCEPT !.good = @ + 1]
         ELSE [st EXCEPT !.bad = @ + 1, !.failed = Append(@, name)]

\* lines 393-414: the counters and listings after one execution was classified
Classify(st, name, r, exc) ==
    IF name \in DOMAIN expected_failures
    THEN IF r
         THEN [st EXCEPT !.xpass = @ + 1, !.xpassed = Append(@, name)]
         ELSE IF expected_failures[name] # None
                 /\ ~IsSubstring(expected_failures[name][1], exc)
              THEN [st EXCEPT !.bad = @ + 1, !.failed = Append(@, name)]
              ELSE [st EXCEPT !.xfail = @ + 1]
    ELSE IF r
         THEN [st EXCEPT !.good = @ + 1]
         ELSE [st EXCEPT !.bad = @ + 1, !.failed = Append(@, name)]

\* Faulty variant of ExitStatus: an unexpected pass does not fail the run.
ExitStatusBadOnly(b, xp) == IF b # 0 THEN 1 ELSE 0

\* lines 434-435 and the return of main()
ExitStatus(b, xp) == IF b # 0 \/ xp # 0 THEN 1 ELSE 0

\* Faulty variant of Total: the closing sanity run is not counted.
TotalOneSanity(sampled) == Len(sampled) + Len(sanity_tests)

\* line 420
Total(sampled) == Len(sampled) + 2 * Len(sanity_tests)

\* line 421
Skip(exclude) == Cardinality(exclude \cap conversations)

\* what Runner(c_test).run() can do: return, or raise with one of the texts
RunnerOutcomes ==
    {[res |-> TRUE, exception |-> None]}
    \cup {[res |-> FALSE, exception |-> e] : e \in ErrTexts}

-----------------------------------------------------------------------------
(* State machine *)

\* The state after the option loop of lines 68-107 and the construction of
\* the population, with the counters of lines 356-361.
Init ==
    /\ opt_n \in {None} \cup {Some(n) : n \in -1..MaxLimit}
    /\ run_only \in SUBSET ArgNames
    /\ run_exclude \in SUBSET ArgNames
    /\ \E D \in SUBSET ArgNames :
           /\ Cardinality(run_only) + Cardinality(run_exclude)
                  + Cardinality(D) <= MaxOpts
           /\ expected_failures \in
                  [D -> {None} \cup {Some(m) : m \in XMessages}]
    /\ num_limit = IF opt_n = None THEN DefaultLimit ELSE opt_n[1]
    /\ sampled_tests = <<>>
    /\ ordered_tests = <<>>
    /\ idx = 1
    /\ c_name = None
    /\ res = TRUE
    /\ exception = None
    /\ good = 0 /\ bad = 0 /\ xfail = 0 /\ xpass = 0
    /\ failed = <<>> /\ xpassed = <<>>
    /\ total = None /\ skip = None
    /\ exit_status = None
    /\ pc = "select"
    /\ executed = <<>>
    /\ results = <<>>
    \* nothing after the option loop reads last_exp_tmp: one of the -x names
    \* stands for whichever came last
    /\ last_exp_tmp =
           IF DOMAIN expected_failures = {} THEN None
           ELSE Some(CHOOSE k \in DOMAIN expected_failures : TRUE)
    /\ dhe = FALSE /\ ems = FALSE /\ ciphers = None
    /\ opts_log = <<>>
    /\ GenAtRest

\* lines 362-376 when sample() accepts its arguments
Select ==
    /\ pc = "select"
    /\ LET limit   == EffectiveLimit(num_limit, run_only)
           regular == RegularTests(run_only, run_exclude)
           k       == SampleSize(limit, regular)
       IN  /\ k >= 0
           /\ num_limit' = limit
           /\ \E s \in Sample(regular, k) :
                  /\ sampled_tests' = s
                  /\ ordered_tests' = OrderedTests(s)
    /\ pc' = "run"
    /\ UNCHANGED <<opt_n, run_only, run_exclude, expected_failures, idx,
                   c_name, res, exception, good, bad, xfail, xpass, failed,
                   xpassed, total, skip, exit_status, executed, results,
                   othervars>>

\* lines 362-375 when sample() raises ValueError (negative sample size):
\* nothing catches it, the interpreter prints the traceback and exits with 1.
SelectRaises ==
    /\ pc = "select"
    /\ LET limit   == EffectiveLimit(num_limit, run_only)
           regular == RegularTests(run_only, run_exclude)
       IN  /\ SampleSize(limit, regular) < 0
           /\ num_limit' = limit
    /\ pc' = "crashed"
    /\ exit_status' = Some(1)
    /\ UNCHANGED <<opt_n, run_only, run_exclude, expected_failures,
                   sampled_tests, ordered_tests, idx, c_name, res, exception,
                   good, bad, xfail, xpass, failed, xpassed, total, skip,
                   executed, results, othervars>>

\* lines 378-414: one iteration of the for loop
RunConversation ==
    /\ pc = "run"
    /\ idx <= Len(ordered_tests)
    /\ \E outcome \in RunnerOutcomes :
        LET name == ordered_tests[idx]
            t    == TryRun(outcome)
            st   == [good |-> good, bad |-> bad, xfail |-> xfail,
                     xpass |-> xpass, failed |-> failed, xpassed |-> xpassed]
            new  == Classify(st, name, t.res, t.exception)
        IN  /\ c_name' = Some(name)
            /\ executed' = Append(executed, name)
            /\ results' = Append(results, [name |-> name, res |-> outcome.res,
                                           exception |-> outcome.exception])
            /\ res' = t.res
            /\ exception' = t.exception
            /\ IF t.raised
               THEN /\ pc' = "crashed"
                    /\ exit_status' = Some(1)
                    /\ UNCHANGED <<idx, good, bad, xfail, xpass, failed, xpassed>>
               ELSE /\ pc' = "run"
                    /\ idx' = idx + 1
                    /\ good' = new.good
                    /\ bad' = new.bad
                    /\ xfail' = new.xfail
                    /\ xpass' = new.xpass
                    /\ failed' = new.failed
                    /\ xpassed' = new.xpassed
                    /\ UNCHANGED exit_status
    /\ UNCHANGED <<opt_n, run_only, run_exclude, expected_failures, num_limit,
                   sampled_tests, ordered_tests, total, skip, othervars>>

\* lines 416-435: the report and the end of the process
Report ==
    /\ pc = "run"
    /\ idx > Len(ordered_tests)
    /\ total' = Some(Total(sampled_tests))
    /\ skip' = Some(Skip(run_exclude))
    /\ exit_status' = Some(ExitStatus(bad, xpass))
    /\ pc' = "done"
    /\ UNCHANGED <<opt_n, run_only, run_exclude, expected_failures, num_limit,
                   sampled_tests, ordered_tests, idx, c_name, res, exception,
                   good, bad, xfail, xpass, failed, xpassed, executed, results,
                   othervars>>

Next == Select \/ SelectRaises \/ RunConversation \/ Report

Spec == Init /\ [][Next]_vars

-----------------------------------------------------------------------------
(* The option loop of main(), lines 60-107, in front of the run *)

\* names typed after -x and -e: the empty string, a baseline and a probe
OptNames == {"", "sanity", TypeFuzzName(1)}

\* arguments of -n
OptLimits == {-1, 0, MaxLimit}

\* arguments of -C: a hexadecimal number and a name of CipherSuite
CipherArgs == {"0x33", "TLS_RSA_WITH_AES_128_CBC_SHA"}

\* the value lines 88-95 make of the argument of -C
ParseCipher(arg) ==
    CASE arg = "0x33" -> 51
      [] arg = "TLS_RSA_WITH_AES_128_CBC_SHA" -> 47

\* probe names given after the options
OptArgs == { {}, {"sanity"} }

\* not v, for v None or a string
Falsy(v) == v = None \/ v = Some("")

\* d[k] = v on a dict
DictSet(d, k, v) ==
    [n \in DOMAIN d \cup {k} |-> IF n = k THEN v ELSE d[n]]

\* the state of lines 56-66 and of the run that has not begun
InitOpts ==
    /\ opt_n = None
    /\ run_only = {}
    /\ run_exclude = {}
    /\ expected_failures = <<>>
    /\ num_limit = DefaultLimit
    /\ last_exp_tmp = None
    /\ dhe = FALSE /\ ems = FALSE /\ ciphers = None
    /\ opts_log = <<>>
    /\ GenAtRest
    /\ sampled_tests = <<>>
    /\ ordered_tests = <<>>
    /\ idx = 1
    /\ c_name = None
    /\ res = TRUE
    /\ exception = None
    /\ good = 0 /\ bad = 0 /\ xfail = 0 /\ xpass = 0
    /\ failed = <<>> /\ xpassed = <<>>
    /\ total = None /\ skip = None
    /\ exit_status = None
    /\ pc = "opts"
    /\ executed = <<>>
    /\ results = <<>>

\* what no option changes
runvars == <<sampled_tests, ordered_tests, idx, c_name, res, exception,
             good, bad, xfail, xpass, failed, xpassed, total, skip,
             executed, results>>

\* the loop is at its next option
MoreOpts == pc = "opts" /\ Len(opts_log) < MaxArgv

\* lines 71-74: -h and -p set host and port, which the model does not hold
OptHostPort ==
    /\ MoreOpts
    /\ \E o \in {"-h", "-p"} :
           opts_log' = Append(opts_log, [opt |-> o, arg |-> ""])
    /\ UNCHANGED <<opt_n, run_only, run_exclude, expected_failures,
                   num_limit, last_exp_tmp, dhe, ems, ciphers, exit_status,
                   pc, runvars, genvars>>

\* lines 75-76
OptExclude ==
    /\ MoreOpts
    /\ \E arg \in OptNames \ {""} :
           /\ run_exclude' = run_exclude \cup {arg}
           /\ opts_log' = Append(opts_log, [opt |-> "-e", arg |-> arg])
    /\ UNCHANGED <<opt_n, run_only, expected_failures, num_limit,
                   last_exp_tmp, dhe, ems, ciphers, exit_status, pc, runvars, genvars>>

\* lines 77-79
OptExpectFailure ==
    /\ MoreOpts
    /\ \E arg \in OptNames :
           /\ expected_failures' = DictSet(expected_failures, arg, None)
           /\ last_exp_tmp' = Some(arg)
           /\ opts_log' = Append(opts_log, [opt |-> "-x", arg |-> arg])
    /\ UNCHANGED <<opt_n, run_only, run_exclude, num_limit, dhe, ems,
                   ciphers, exit_status, pc, runvars, genvars>>

\* lines 80-83: the ValueError is caught nowhere and ends the process
OptExpectMessage ==
    /\ MoreOpts
    /\ \E arg \in XMessages :
           /\ opts_log' = Append(opts_log, [opt |-> "-X", arg |-> arg])
           /\ IF Falsy(last_exp_tmp)
              THEN /\ pc' = "rejected"
                   /\ exit_status' = Some(1)
                   /\ UNCHANGED expected_failures
              ELSE /\ expected_failures' =
                       DictSet(expected_failures, last_exp_tmp[1], Some(arg))
                   /\ UNCHANGED <<pc, exit_status>>
    /\ UNCHANGED <<opt_n, run_only, run_exclude, num_limit, last_exp_tmp,
                   dhe, ems, ciphers, runvars, genvars>>

\* lines 84-85
OptLimit ==
    /\ MoreOpts
    /\ \E arg \in OptLimits :
           /\ num_limit' = arg
           /\ opt_n' = Some(arg)
           /\ opts_log' = Append(opts_log, [opt |-> "-n", arg |-> ToString(arg)])
    /\ UNCHANGED <<run_only, run_exclude, expected_failures, last_exp_tmp,
                   dhe, ems, ciphers, exit_status, pc, runvars, genvars>>

\* lines 86-87
OptDhe ==
    /\ MoreOpts
    /\ dhe' = TRUE
    /\ opts_log' = Append(opts_log, [opt |-> "-d", arg |-> ""])
    /\ UNCHANGED <<opt_n, run_only, run_exclude, expected_failures,
                   num_limit, last_exp_tmp, ems, ciphers, exit_status, pc,
                   runvars, genvars>>

\* lines 88-95
OptCiphers ==
    /\ MoreOpts
    /\ \E arg \in CipherArgs :
           /\ ciphers' = Some(ParseCipher(arg))
           /\ opts_log' = Append(opts_log, [opt |-> "-C", arg |-> arg])
    /\ UNCHANGED <<opt_n, run_only, run_exclude, expected_failures,
                   num_limit, last_exp_tmp, dhe, ems, exit_status, pc,
                   runvars, genvars>>

\* lines 96-97
OptEms ==
    /\ MoreOpts
    /\ ems' = TRUE
    /\ opts_log' = Append(opts_log, [opt |-> "-M", arg |-> ""])
    /\ UNCHANGED <<opt_n, run_only, run_exclude, expected_failures,
                   num_limit, last_exp_tmp, dhe, ciphers, exit_status, pc,
                   runvars, genvars>>

\* lines 98-100: --help prints the usage and exits with status 0
OptHelp ==
    /\ MoreOpts
    /\ opts_log' = Append(opts_log, [opt |-> "--help", arg |-> ""])
    /\ pc' = "helped"
    /\ exit_status' = Some(0)
    /\ UNCHANGED <<opt_n, run_only, run_exclude, expected_failures,
                   num_limit, last_exp_tmp, dhe, ems, ciphers, runvars, genvars>>

\* lines 104-107: the loop is over, the probe names become run_only
EndOptions ==
    /\ pc = "opts"
    /\ \E args \in OptArgs : run_only' = args
    /\ pc' = "select"
    /\ UNCHANGED <<opt_n, run_exclude, expected_failures, num_limit,
                   last_exp_tmp, dhe, ems, ciphers, opts_log, exit_status,
                   runvars, genvars>>

NextOpts ==
    \/ OptHostPort \/ OptExclude \/ OptExpectFailure \/ OptExpectMessage
    \/ OptLimit \/ OptDhe \/ OptCiphers \/ OptEms \/ OptHelp \/ EndOptions
    \/ Select \/ SelectRaises \/ RunConversation \/ Report

SpecOpts == InitOpts /\ [][NextOpts]_vars

-----------------------------------------------------------------------------
(* Vocabulary of the properties: what the log of the run shows *)

\* names of a sequence of log entries
Names(rs) == [i \in DOMAIN rs |-> rs[i].name]

\* number of times name k was handed to a Runner
Count(k) == Cardinality({i \in DOMAIN executed : executed[i] = k})

\* the entry is of a conversation named in the expected-failure registry
Registered(r) == r.name \in DOMAIN expected_failures

\* the registry requires a substring for the entry's conversation and the
\* error text of the entry does not contain it
WrongMessage(r) ==
    /\ Registered(r)
    /\ expected_failures[r.name] # None
    /\ ~IsSubstring(expected_failures[r.name][1], r.exception)

IsXPASS(r) == Registered(r) /\ r.res
IsXFAIL(r) == Registered(r) /\ ~r.res /\ ~WrongMessage(r)
IsFAIL(r) == ~r.res /\ (~Registered(r) \/ WrongMessage(r))
IsPASS(r) == ~Registered(r) /\ r.res

\* the loop is over or has started
Selected == pc \in {"run", "done"}

-----------------------------------------------------------------------------
(* C1 *)

\* C1: in every run the first conversation executed is 'sanity', and once
\* the run is over the last one executed is 'sanity' too and the sampled
\* conversations are exactly what was executed between the two, in order.
C1_SanityFirstAndLast ==
    /\ executed # <<>> => executed[1] = "sanity"
    /\ pc = "done" =>
          /\ Len(executed) = Len(sampled_tests) + 2
          /\ Last(executed) = "sanity"
          /\ \A i \in 1..Len(sampled_tests) : executed[i + 1] = sampled_tests[i]

\* a finished run with an exclusion and two sampled conversations
C1_Witness ==
    /\ pc = "done"
    /\ run_exclude # {}
    /\ Len(sampled_tests) = 2
    /\ Len(executed) = 4

-----------------------------------------------------------------------------
(* C2 *)

\* the conversations sample() may draw when no probe name is given
EligibleNoSelection == {k \in conversations : k # "sanity" /\ k \notin run_exclude}

\* no selection set and a positive limit below the size of the population
C2_Case ==
    /\ Selected
    /\ run_only = {}
    /\ num_limit > 0
    /\ num_limit < Cardinality(conversations)

C2_DistinctEligible ==
    /\ \A i, j \in DOMAIN sampled_tests : i # j => sampled_tests[i] # sampled_tests[j]
    /\ "sanity" \notin Range(sampled_tests)
    /\ Range(sampled_tests) \cap run_exclude = {}

\* C2 as stated: exactly N conversations are selected, pairwise distinct,
\* none named 'sanity', none excluded.
C2_ExactlyN ==
    C2_Case => Len(sampled_tests) = num_limit /\ C2_DistinctEligible

\* C2 amended: with no selection set and a positive limit N below the size
\* of the population, min(N, E) conversations are selected, E being the
\* number of conversations other than 'sanity' that are not excluded; they
\* are pairwise distinct, none is named 'sanity' and none is excluded.
C2_ExactlyMinOfLimitAndEligible ==
    C2_Case =>
        /\ Len(sampled_tests) = Min(num_limit, Cardinality(EligibleNoSelection))
        /\ C2_DistinctEligible

\* one conversation drawn out of two eligible ones, a third being excluded
\* or not in the population
C2_Witness ==
    /\ C2_Case
    /\ num_limit = 1
    /\ run_exclude # {}
    /\ Cardinality(EligibleNoSelection) > 1
    /\ Len(sampled_tests) = 1

-----------------------------------------------------------------------------
(* C3 *)

\* some execution of the run was a FAIL or an XPASS
SomeFailOrXpass == \E i \in DOMAIN results : IsFAIL(results[i]) \/ IsXPASS(results[i])

\* C3 as stated: the process ends with status 1 exactly when some executed
\* conversation was classified FAIL or XPASS, and with 0 otherwise.
C3_ExitOneIffFailOrXpass ==
    exit_status # None =>
        exit_status = Some(IF SomeFailOrXpass THEN 1 ELSE 0)

\* C3 amended: a run that reaches its report ends with status 1 exactly
\* when some executed conversation was classified FAIL or XPASS, and with 0
\* when all were PASS or XFAIL.
C3_ReportedRunExitOneIffFailOrXpass ==
    pc = "done" =>
        exit_status = Some(IF SomeFailOrXpass THEN 1 ELSE 0)

\* a finished run with an expected failure and nothing else wrong ends with 0
C3_Witness ==
    /\ pc = "done"
    /\ exit_status = Some(0)
    /\ \E i \in DOMAIN results : IsXFAIL(results[i])

-----------------------------------------------------------------------------
(* C4 *)

\* C4: the xpassed listing holds, in order, the name of every execution of
\* a registered conversation that raised nothing, XPASS counts them, and a
\* run in which there was one ends with exit status 1.
C4_XpassListedAndRunFails ==
    /\ xpassed = Names(SelectSeq(results, IsXPASS))
    /\ xpass = Len(xpassed)
    /\ (pc = "done" /\ \E i \in DOMAIN results : IsXPASS(results[i]))
          => exit_status = Some(1)

\* a finished run whose only anomaly is an unexpected pass
C4_Witness ==
    /\ pc = "done"
    /\ xpass >= 1
    /\ bad = 0
    /\ exit_status = Some(1)

-----------------------------------------------------------------------------
(* C5 *)

\* a registered conversation failed with a text lacking the required substring
WrongMessageFailure(r) == ~r.res /\ WrongMessage(r)

\* number of entries of sequence s equal to k
Occurrences(s, k) == Cardinality({i \in DOMAIN s : s[i] = k})

\* C5: every failure of a registered conversation whose error text lacks
\* the required substring is counted in FAIL and listed in failed, and is
\* not counted in XFAIL.
C5_WrongMessageIsFail ==
    /\ bad >= Len(SelectSeq(results, WrongMessageFailure))
    /\ \A k \in conversations :
           Occurrences(failed, k) >=
               Occurrences(Names(SelectSeq(results, WrongMessageFailure)), k)
    /\ xfail <= Len(SelectSeq(results, IsXFAIL))

\* a sampled conversation failed with the wrong text and was listed
C5_Witness ==
    /\ pc = "done"
    /\ \E i \in DOMAIN results :
           /\ WrongMessageFailure(results[i])
           /\ results[i].name # "sanity"
           /\ results[i].name \in Range(failed)
    /\ xfail = 0

-----------------------------------------------------------------------------
(* C6 *)

\* C6: no failure of a conversation ends the process: the loop has executed
\* the list up to its position, every failure is counted as a FAIL or an
\* XFAIL, and at the end of the run every conversation of the ordered list,
\* the final sanity run included, has been executed.
C6_FailuresCaughtSweepContinues ==
    /\ pc = "crashed" => executed = <<>>
    /\ Selected =>
          /\ Len(executed) = idx - 1
          /\ executed = SubSeq(ordered_tests, 1, idx - 1)
          /\ bad + xfail = Cardinality({i \in DOMAIN results : ~results[i].res})
    /\ pc = "done" => executed = ordered_tests

\* a finished run in which the first and a later execution failed
C6_Witness ==
    /\ pc = "done"
    /\ Len(executed) >= 4
    /\ ~results[1].res
    /\ ~results[2].res
    /\ results[Len(results)].res

-----------------------------------------------------------------------------
(* C7 *)

\* C7 as stated: at the end of a run every conversation of the population
\* has been executed exactly once.
C7_EveryConversationExactlyOnce ==
    pc = "done" => \A k \in conversations : Count(k) = 1

\* executions the ordered list gives conversation k
DueExecutions(k) ==
    (IF k = "sanity" THEN 2 ELSE 0) + (IF k \in Range(sampled_tests) THEN 1 ELSE 0)

\* C7 amended: only conversations of the population are executed; a sampled
\* conversation other than 'sanity' is executed exactly once, also when it
\* fails, a conversation that was not sampled is not executed, and 'sanity'
\* is executed twice, and a third time when it is itself sampled.
C7_ExecutionCounts ==
    /\ Range(executed) \subseteq conversations
    /\ Selected => \A k \in conversations : Count(k) <= DueExecutions(k)
    /\ pc = "done" => \A k \in conversations : Count(k) = DueExecutions(k)

\* 'sanity' was selected and ran three times; another selected conversation
\* failed and ran once
C7_Witness ==
    /\ pc = "done"
    /\ Count("sanity") = 3
    /\ \E i \in DOMAIN results :
           /\ ~results[i].res
           /\ results[i].name # "sanity"
           /\ Count(results[i].name) = 1

-----------------------------------------------------------------------------
(* C8 *)

\* a finished run whose first sanity execution failed
C8_Case == pc = "done" /\ ~results[1].res

C8_SweepCompleted ==
    /\ executed = ordered_tests
    /\ Len(executed) = Len(sampled_tests) + 2
    /\ Last(executed) = "sanity"

-----------------------------------------------------------------------------
(* C9 *)

\* the conversations sample() may draw
Eligible ==
    IF run_only = {} THEN EligibleNoSelection
    ELSE {k \in conversations : k \in run_only}

\* C9 as stated: with a limit of zero or no -n at all, every eligible
\* conversation is sampled and, at the end of the run, executed.
C9_ZeroOrUnsetRunsAll ==
    (Selected /\ (opt_n = None \/ opt_n = Some(0))) =>
        /\ Range(sampled_tests) = Eligible
        /\ pc = "done" => Eligible \subseteq Range(executed)

\* C9 amended: with a limit of zero every eligible conversation is sampled
\* and executed; without -n the limit is the default, and the default or
\* all the eligible conversations, whichever is fewer, are sampled and
\* executed.
C9_ZeroRunsAllUnsetRunsDefault ==
    /\ (Selected /\ opt_n = Some(0)) =>
          /\ Range(sampled_tests) = Eligible
          /\ pc = "done" => Eligible \subseteq Range(executed)
    /\ (Selected /\ opt_n = None) =>
          /\ Range(sampled_tests) \subseteq Eligible
          /\ Len(sampled_tests) = Min(DefaultLimit, Cardinality(Eligible))
          /\ pc = "done" => Range(sampled_tests) \subseteq Range(executed)

\* -n 0 without probe names: all the eligible conversations ran
C9_Witness ==
    /\ pc = "done"
    /\ opt_n = Some(0)
    /\ run_only = {}
    /\ Cardinality(Eligible) >= 2
    /\ Eligible \subseteq Range(executed)

-----------------------------------------------------------------------------
(* C10 *)

\* C10: no conversation named with -e is executed, and the SKIP line counts
\* conversations that were not executed.
C10_ExcludedNeverExecuted ==
    /\ \A k \in run_exclude : k \notin Range(executed)
    /\ pc = "done" =>
          skip = Some(Cardinality({k \in run_exclude \cap conversations :
                                      k \notin Range(executed)}))

-----------------------------------------------------------------------------
(* The scenario generator of main(), lines 108-353: conversation trees *)

\* a node of a conversation: its kind, its children and its next_sibling
\* (indices into the conversation's nodes, 0 for no sibling)
Node(kind) == [kind |-> kind, children |-> <<>>, next_sibling |-> 0]

\* Connect(host, port): a tree of one node; node is the current node
Connect == [nodes |-> <<Node("Connect")>>, node |-> 1]

\* node = node.add_child(kind)
AddChild(t, kind) ==
    LET n == Len(t.nodes) + 1
    IN  [nodes |-> Append([t.nodes EXCEPT ![t.node].children = Append(@, n)],
                          Node(kind)),
         node |-> n]

\* node.next_sibling = kind
SetNextSibling(t, kind) ==
    LET n == Len(t.nodes) + 1
    IN  [nodes |-> Append([t.nodes EXCEPT ![t.node].next_sibling = n],
                          Node(kind)),
         node |-> t.node]

\* a chain of add_child calls
RECURSIVE AddChildren(_, _)
AddChildren(t, kinds) ==
    IF kinds = <<>> THEN t
    ELSE AddChildren(AddChild(t, Head(kinds)), Tail(kinds))

\* CipherSuite.TLS_EMPTY_RENEGOTIATION_INFO_SCSV
SCSV == 255

\* ClientHelloGenerator(suites, version=(3, 3), extensions=extensions)
ClientHelloGenerator(suites, extensions) ==
    [ciphers |-> suites, extensions |-> extensions]

\* No mutation: the empty offset-to-value mapping.
NoFuzz == <<>>

\* Faulty variant of SanityConversation: the chain stops at the
\* close_notify alert the client sends.
SanityConversationNoTerminal(hello, with_dhe) ==
    [tree |-> AddChildren(Connect,
                  <<"ClientHelloGenerator", "ExpectServerHello",
                    "ExpectCertificate">>
                  \o (IF with_dhe THEN <<"ExpectServerKeyExchange">> ELSE <<>>)
                  \o <<"ExpectServerHelloDone", "ClientKeyExchangeGenerator",
                       "ChangeCipherSpecGenerator", "FinishedGenerator",
                       "ExpectChangeCipherSpec", "ExpectFinished",
                       "ApplicationDataGenerator", "ExpectApplicationData",
                       "AlertGenerator">>).nodes,
     hello |-> hello, xors |-> NoFuzz, substitutions |-> NoFuzz,
     alert |-> "any", number |-> None]

\* lines 123-173 and 175-202: a baseline conversation around hello
SanityConversation(hello, with_dhe) ==
    [tree |-> SetNextSibling(
                  AddChildren(Connect,
                      <<"ClientHelloGenerator", "ExpectServerHello",
                        "ExpectCertificate">>
                      \o (IF with_dhe THEN <<"ExpectServerKeyExchange">>
                                      ELSE <<>>)
                      \o <<"ExpectServerHelloDone",
                           "ClientKeyExchangeGenerator",
                           "ChangeCipherSpecGenerator", "FinishedGenerator",
                           "ExpectChangeCipherSpec", "ExpectFinished",
                           "ApplicationDataGenerator",
                           "ExpectApplicationData", "AlertGenerator",
                           "ExpectAlert">>),
                  "ExpectClose").nodes,
     hello |-> hello, xors |-> NoFuzz, substitutions |-> NoFuzz,
     alert |-> "any", number |-> None]

\* The body of every sweep: Connect, fuzz_message(hello_gen, ...),
\* ExpectAlert(...), ExpectClose.  alert is what ExpectAlert is given;
\* number is the number the conversation's name is formatted with.
FuzzConversation(hello, xors, substitutions, alert, number) ==
    [tree |-> AddChildren(Connect,
                  <<"fuzz_message", "ExpectAlert", "ExpectClose">>).nodes,
     hello |-> hello, xors |-> xors, substitutions |-> substitutions,
     alert |-> alert, number |-> Some(number)]

\* the bytes one extension takes in a serialized hello: type and length,
\* two bytes each, and the body (one empty renegotiated connection; nothing;
\* a list of two groups; a list of eight signature algorithms)
ExtensionSize(e) ==
    CASE e = "renegotiation_info" -> 5
      [] e = "extended_master_secret" -> 4
      [] e = "supported_groups" -> 10
      [] e = "signature_algorithms" -> 22
      [] e = "signature_algorithms_cert" -> 22

\* the length the extensions field of a hello announces
RECURSIVE ExtensionsLength(_)
ExtensionsLength(es) ==
    IF es = {} THEN 0
    ELSE LET e == CHOOSE x \in es : TRUE
         IN  ExtensionSize(e) + ExtensionsLength(es \ {e})

\* The type and length bytes of the handshake message hello serializes to:
\* type (0), 3 bytes of length, 2 of version, 32 of random, the session ID
\* length (38) of an empty session ID, the cipher suites length (39-40),
\* two bytes per suite, the compression methods length and the null
\* method, and the extensions length when there are extensions.
HelloByte(hello, offset) ==
    LET n == Len(hello.ciphers)
    IN  CASE offset = 0 -> 1
          [] offset = 38 -> 0
          [] offset = 39 -> (2 * n) \div 256
          [] offset = 40 -> (2 * n) % 256
          [] offset = 41 + (2 * n) -> 1
          [] offset = 42 + (2 * n) -> 0
          [] offset = 43 + (2 * n) /\ hello.extensions # {} ->
                 ExtensionsLength(hello.extensions) \div 256
          [] offset = 44 + (2 * n) /\ hello.extensions # {} ->
                 ExtensionsLength(hello.extensions) % 256

\* conversations[name] = conversation, for a run of assignments in order:
\* the last assignment to a name is the one that stays
Assign(d, as) ==
    LET names == {as[n].name : n \in DOMAIN as}
        at(k) == {n \in DOMAIN as : as[n].name = k}
        last(k) == CHOOSE n \in at(k) : \A m \in at(k) : m <= n
    IN  [k \in DOMAIN d \cup names |->
            IF k \in names THEN as[last(k)].conv ELSE d[k]]

-----------------------------------------------------------------------------
(* The scenario generator: lines 108-202 and the sweeps up to line 241 *)

\* 0x100 of range(1, 0x100) and range(0, 0x100)
ByteRange == 256

\* list(range(1, 0x100))
Range1 == [n \in 1..(ByteRange - 1) |-> n]

\* list(range(0, 0x100))
Range0 == [n \in 1..ByteRange |-> n - 1]

\* i << 8
Shl8(i) == i * ByteRange

\* TLS_RSA_WITH_AES_128_CBC_SHA and TLS_ECDHE_RSA_WITH_AES_128_CBC_SHA
DefaultCipher(with_dhe) == IF with_dhe THEN 49171 ELSE 47

\* the suites of CipherSuite.ecdhAllSuites and CipherSuite.dhAllSuites among
\* DefaultCipher and the values of ParseCipher
DhSuites == {51, 49171}

\* "session ID len fuzz to {0}".format(n)
SessionIdName(n) == "session ID len fuzz to " \o ToString(n)

\* Faulty variant of SessionIdExtName: the suffix is left out.
SessionIdExtNameNoSuffix(n) == "session ID len fuzz to " \o ToString(n)

\* "session ID len fuzz to {0} w/ext".format(n)
SessionIdExtName(n) == "session ID len fuzz to " \o ToString(n) \o " w/ext"

\* "cipher suites len fuzz to {0}".format(n)
CipherSuitesName(n) == "cipher suites len fuzz to " \o ToString(n)

\* "cipher suites len fuzz to {0} w/ext".format(n)
CipherSuitesExtName(n) ==
    "cipher suites len fuzz to " \o ToString(n) \o " w/ext"

\* "compression methods len fuzz to {0}".format(n)
CompressionName(n) == "compression methods len fuzz to " \o ToString(n)

\* "compression methods len fuzz to {0} w/ext".format(n)
CompressionExtName(n) ==
    "compression methods len fuzz to " \o ToString(n) \o " w/ext"

\* "extensions len fuzz to {0}".format(n)
ExtensionsName(n) == "extensions len fuzz to " \o ToString(n)

\* the values of a byte
Bytes == 0..(ByteRange - 1)

\* the assignments of one for statement over the values vs, in order; Nm
\* and Cv give the name and the conversation of the body for each value
Sweep(vs, Nm, Cv) ==
    [n \in DOMAIN vs |-> [name |-> Nm[vs[n]], conv |-> Cv[vs[n]]]]

\* the hello of the plain conversations
PlainHello == ClientHelloGenerator(ciphers \o <<SCSV>>, ext)

\* the hello of the 'w/ext' conversations
ExtHello == ClientHelloGenerator(ciphers, ext_renego_info)

\* what the generator neither reads nor writes
ungenvars == <<opt_n, run_only, run_exclude, expected_failures, num_limit,
               exit_status, pc, runvars, last_exp_tmp, opts_log>>

\* the options are parsed, nothing is built
InitGen ==
    /\ dhe \in BOOLEAN
    /\ ems \in BOOLEAN
    /\ ciphers \in {None} \cup {Some(ParseCipher(arg)) : arg \in CipherArgs}
    /\ ext = {} /\ ext_renego_info = {}
    /\ gen_conversations = <<>>
    /\ n_assigned = 0
    /\ gen_pc = "resolve"
    /\ gen_i = 1
    /\ opt_n = None
    /\ run_only = {}
    /\ run_exclude = {}
    /\ expected_failures = <<>>
    /\ num_limit = DefaultLimit
    /\ last_exp_tmp = None
    /\ opts_log = <<>>
    /\ sampled_tests = <<>>
    /\ ordered_tests = <<>>
    /\ idx = 1
    /\ c_name = None
    /\ res = TRUE
    /\ exception = None
    /\ good = 0 /\ bad = 0 /\ xfail = 0 /\ xpass = 0
    /\ failed = <<>> /\ xpassed = <<>>
    /\ total = None /\ skip = None
    /\ exit_status = None
    /\ pc = "generate"
    /\ executed = <<>>
    /\ results = <<>>

\* the assignments as are made and the generator moves on
Put(as, next_pc, next_i) ==
    /\ gen_conversations' = Assign(gen_conversations, as)
    /\ n_assigned' = n_assigned + Len(as)
    /\ gen_pc' = next_pc
    /\ gen_i' = next_i

\* an if statement whose test fails: nothing is built
Pass(next_pc) ==
    /\ gen_pc' = next_pc
    /\ UNCHANGED <<gen_conversations, n_assigned, gen_i>>

\* lines 108-119
ResolveCiphers ==
    /\ gen_pc = "resolve"
    /\ IF ciphers # None
       THEN /\ dhe' = (dhe \/ ciphers[1] \in DhSuites)
            /\ UNCHANGED ciphers
       ELSE /\ ciphers' = <<DefaultCipher(dhe)>>
            /\ UNCHANGED dhe
    /\ Pass("sanity")
    /\ UNCHANGED <<ems, ext, ext_renego_info, ungenvars>>

\* the extensions of lines 125-148, before ext is emptied to None
ExtOf(with_ems, with_dhe) ==
    (IF with_ems THEN {"extended_master_secret"} ELSE {})
    \cup (IF with_dhe
          THEN {"supported_groups", "signature_algorithms",
                "signature_algorithms_cert"}
          ELSE {})

\* lines 121-173
Sanity ==
    /\ gen_pc = "sanity"
    /\ ext' = ExtOf(ems, dhe)
    /\ ext_renego_info' = ExtOf(ems, dhe) \cup {"renegotiation_info"}
    /\ Put(<<[name |-> "sanity",
              conv |-> SanityConversation(
                  ClientHelloGenerator(ciphers \o <<SCSV>>, ExtOf(ems, dhe)),
                  dhe)]>>,
           "sanity_ext", 1)
    /\ UNCHANGED <<dhe, ems, ciphers, ungenvars>>

\* lines 175-202
SanityExt ==
    /\ gen_pc = "sanity_ext"
    /\ Put(<<[name |-> "sanity w/ext",
              conv |-> SanityConversation(ExtHello, dhe)]>>,
           "type", 1)
    /\ UNCHANGED <<dhe, ems, ciphers, ext, ext_renego_info, ungenvars>>

\* lines 205-215
TypeSweep ==
    /\ gen_pc = "type"
    /\ LET Cv == [i \in Bytes |->
               FuzzConversation(PlainHello, 0 :> i, NoFuzz,
                                "any", Xor(1, i))]
       IN  Put(Sweep(Range1, [i \in Bytes |-> TypeFuzzName(i)], Cv),
               "sid", 1)
    /\ UNCHANGED <<dhe, ems, ciphers, ext, ext_renego_info, ungenvars>>

\* lines 218-229
SessionIdSweep ==
    /\ gen_pc = "sid"
    /\ IF ext = {}
       THEN LET Cv == [i \in Bytes |->
                    FuzzConversation(PlainHello, NoFuzz, 38 :> i,
                                     "fatal decode_error", i)]
            IN  Put(Sweep(Range1, [i \in Bytes |-> SessionIdName(i)], Cv),
                    "sid_ext", 1)
       ELSE Pass("sid_ext")
    /\ UNCHANGED <<dhe, ems, ciphers, ext, ext_renego_info, ungenvars>>

\* lines 231-239
SessionIdExtSweep ==
    /\ gen_pc = "sid_ext"
    /\ LET Cv == [i \in Bytes |->
               FuzzConversation(ExtHello, NoFuzz, 38 :> i,
                                "any", i)]
       IN  Put(Sweep(Range1, [i \in Bytes |-> SessionIdExtName(i)], Cv),
               "cs", 1)
    /\ UNCHANGED <<dhe, ems, ciphers, ext, ext_renego_info, ungenvars>>

-----------------------------------------------------------------------------
(* The scenario generator: the sweeps of lines 243-353 *)

\* the high bytes of lines 256 and 286
CipherHigh == <<1, 2, 4, 8, 16, 128, 254, 255>>

\* the high bytes of line 343
ExtHigh == <<1, 2, 4, 8, 16, 254, 255>>

\* lines 243-254; the if statement of line 243 holds the next sweep too
CipherSuitesSweep ==
    /\ gen_pc = "cs"
    /\ IF ext = {}
       THEN LET Nm == [i \in Bytes |-> CipherSuitesName(Xor(4, i))]
                Cv == [i \in Bytes |->
                         FuzzConversation(PlainHello, 40 :> i, NoFuzz,
                                          "fatal decode_error", Xor(4, i))]
            IN  Put(Sweep(Range1, Nm, Cv), "cs16", 1)
       ELSE Pass("cs_ext")
    /\ UNCHANGED <<dhe, ems, ciphers, ext, ext_renego_info, ungenvars>>

\* lines 256-267, one execution of the for statement of line 257
CipherSuites16Sweep ==
    /\ gen_pc = "cs16"
    /\ LET i == CipherHigh[gen_i]
           Nm == [j \in Bytes |-> CipherSuitesName(Shl8(i) + j)]
           Cv == [j \in Bytes |->
                    FuzzConversation(PlainHello, NoFuzz,
                                     (39 :> i) @@ (40 :> j),
                                     "fatal decode_error", Shl8(i) + j)]
       IN  IF gen_i < Len(CipherHigh)
           THEN Put(Sweep(Range0, Nm, Cv), "cs16", gen_i + 1)
           ELSE Put(Sweep(Range0, Nm, Cv), "cs_ext", 1)
    /\ UNCHANGED <<dhe, ems, ciphers, ext, ext_renego_info, ungenvars>>

\* lines 269-284
CipherSuitesExtSweep ==
    /\ gen_pc = "cs_ext"
    /\ LET Kept(i) == /\ ~(dhe /\ ~ems /\ i = 56)
                      /\ ~(dhe /\ ems /\ i = 60)
           Nm == [i \in Bytes |-> CipherSuitesExtName(Xor(4, i))]
           Cv == [i \in Bytes |->
                    FuzzConversation(ExtHello, 40 :> i, NoFuzz, "fatal",
                                     Xor(4, i))]
       IN  Put(Sweep(SelectSeq(Range1, Kept), Nm, Cv), "cs16_ext", 1)
    /\ UNCHANGED <<dhe, ems, ciphers, ext, ext_renego_info, ungenvars>>

\* lines 286-296, one execution of the for statement of line 287
CipherSuites16ExtSweep ==
    /\ gen_pc = "cs16_ext"
    /\ LET i == CipherHigh[gen_i]
           Nm == [j \in Bytes |-> CipherSuitesExtName(Shl8(i) + j)]
           Cv == [j \in Bytes |->
                    FuzzConversation(ExtHello, NoFuzz,
                                     (39 :> i) @@ (40 :> j),
                                     "fatal decode_error", Shl8(i) + j)]
       IN  IF gen_i < Len(CipherHigh)
           THEN Put(Sweep(Range0, Nm, Cv), "cs16_ext", gen_i + 1)
           ELSE Put(Sweep(Range0, Nm, Cv), "comp", 1)
    /\ UNCHANGED <<dhe, ems, ciphers, ext, ext_renego_info, ungenvars>>

\* lines 299-310
CompressionSweep ==
    /\ gen_pc = "comp"
    /\ IF ext = {}
       THEN LET Nm == [i \in Bytes |-> CompressionName(Xor(1, i))]
                Cv == [i \in Bytes |->
                         FuzzConversation(PlainHello, 45 :> i, NoFuzz,
                                          "fatal decode_error", Xor(1, i))]
            IN  Put(Sweep(Range1, Nm, Cv), "comp_ext", 1)
       ELSE Pass("comp_ext")
    /\ UNCHANGED <<dhe, ems, ciphers, ext, ext_renego_info, ungenvars>>

\* lines 312-329
CompressionExtSweep ==
    /\ gen_pc = "comp_ext"
    /\ LET Kept(i) == /\ ~(~dhe /\ ~ems /\ Xor(1, i) = 8)
                      /\ ~(dhe /\ ~ems /\ Xor(1, i) = 62)
                      /\ ~(dhe /\ ems /\ Xor(1, i) = 66)
                      /\ ~(~dhe /\ ems /\ Xor(1, i) = 12)
           Nm == [i \in Bytes |-> CompressionExtName(Xor(1, i))]
           Cv == [i \in Bytes |->
                    FuzzConversation(ExtHello, 43 :> i, NoFuzz,
                                     "fatal decode_error", Xor(1, i))]
       IN  Put(Sweep(SelectSeq(Range1, Kept), Nm, Cv), "extlen", 1)
    /\ UNCHANGED <<dhe, ems, ciphers, ext, ext_renego_info, ungenvars>>

\* lines 332-341
ExtensionsSweep ==
    /\ gen_pc = "extlen"
    /\ LET Nm == [i \in Bytes |-> ExtensionsName(Xor(5, i))]
           Cv == [i \in Bytes |->
                    FuzzConversation(ExtHello, 46 :> i, NoFuzz,
                                     "fatal decode_error", Xor(5, i))]
       IN  Put(Sweep(Range1, Nm, Cv), "extlen16", 1)
    /\ UNCHANGED <<dhe, ems, ciphers, ext, ext_renego_info, ungenvars>>

\* lines 343-353, one execution of the for statement of line 344
Extensions16Sweep ==
    /\ gen_pc = "extlen16"
    /\ LET i == ExtHigh[gen_i]
           Nm == [j \in Bytes |-> ExtensionsName(Shl8(i) + j)]
           Cv == [j \in Bytes |->
                    FuzzConversation(ExtHello, NoFuzz,
                                     (45 :> i) @@ (46 :> j),
                                     "fatal decode_error", Shl8(i) + j)]
       IN  IF gen_i < Len(ExtHigh)
           THEN Put(Sweep(Range0, Nm, Cv), "extlen16", gen_i + 1)
           ELSE Put(Sweep(Range0, Nm, Cv), "built", 1)
    /\ UNCHANGED <<dhe, ems, ciphers, ext, ext_renego_info, ungenvars>>

NextGen ==
    \/ ResolveCiphers \/ Sanity \/ SanityExt \/ TypeSweep
    \/ SessionIdSweep \/ SessionIdExtSweep
    \/ CipherSuitesSweep \/ CipherSuites16Sweep
    \/ CipherSuitesExtSweep \/ CipherSuites16ExtSweep
    \/ CompressionSweep \/ CompressionExtSweep
    \/ ExtensionsSweep \/ Extensions16Sweep

SpecGen == InitGen /\ [][NextGen]_vars

-----------------------------------------------------------------------------
(* C11 *)

\* What the declarations -x and -X of a command line ask for: the registry,
\* the probe of the latest -x (None before the first), and whether a -X
\* came before any -x.
RECURSIVE Declared(_)
Declared(log) ==
    IF log = <<>>
    THEN [reg |-> <<>>, last |-> None, rejected |-> FALSE]
    ELSE LET d == Declared(SubSeq(log, 1, Len(log) - 1))
             o == Last(log)
         IN  IF d.rejected THEN d
             ELSE IF o.opt = "-x"
             THEN [reg |-> DictSet(d.reg, o.arg, None),
                   last |-> Some(o.arg), rejected |-> FALSE]
             ELSE IF o.opt = "-X"
             THEN IF d.last = None
                  THEN [reg |-> d.reg, last |-> d.last, rejected |-> TRUE]
                  ELSE [reg |-> DictSet(d.reg, d.last[1], Some(o.arg)),
                        last |-> d.last, rejected |-> FALSE]
             ELSE d

\* C11: over any sequence of options, a -X message is attached to the probe
\* of the -x before it and to no other probe, a probe given with -x and no
\* -X after it has no required message, and the command line is rejected,
\* with no conversation run, exactly when a -X comes before any -x.
C11_MessageGoesToPrecedingProbe ==
    LET d == Declared(opts_log)
    IN  /\ (pc = "rejected") <=> d.rejected
        /\ pc = "rejected" => executed = <<>> /\ exit_status = Some(1)
        /\ pc # "rejected" => expected_failures = d.reg

-----------------------------------------------------------------------------
(* C12 *)

\* num_limit as the option loop leaves it
GivenLimit == IF opt_n = None THEN DefaultLimit ELSE opt_n[1]

\* number of executions of k after the first and before the last sanity run
CountBetween(k) ==
    Cardinality({i \in 2..(Len(executed) - 1) : executed[i] = k})

\* C12: when probe names are given, every conversation executed between the
\* first and the last sanity run is one of the named probes; and when the
\* limit is at least the number of names, a finished run has executed every
\* named probe of the population exactly once between the two.
C12_NamedProbesOnly ==
    (run_only # {} /\ Selected) =>
        /\ \A i \in DOMAIN executed :
               (1 < i /\ i < Len(ordered_tests)) => executed[i] \in run_only
        /\ (pc = "done" /\ GivenLimit >= Cardinality(run_only)) =>
               \A k \in run_only \cap conversations : CountBetween(k) = 1

\* a finished run with two names of the population and a limit of two
C12_Witness ==
    /\ pc = "done"
    /\ Cardinality(run_only \cap conversations) = 2
    /\ GivenLimit >= Cardinality(run_only)
    /\ \A k \in run_only : CountBetween(k) = 1

-----------------------------------------------------------------------------
(* C13 *)

\* C13: whatever dhe and ems are, no two conversations the generator builds
\* are assigned the same name: every assignment to the population adds a
\* key, none overwrites a conversation built before.
C13_NamesUnique ==
    Cardinality(DOMAIN gen_conversations) = n_assigned

\* the generator is through with every sweep, the plain ones included, and
\* has built more than a sweep of conversations
C13_Witness ==
    /\ gen_pc = "built"
    /\ ext = {}
    /\ n_assigned > ByteRange
    /\ SessionIdName(1) \in DOMAIN gen_conversations
    /\ SessionIdExtName(1) \in DOMAIN gen_conversations

-----------------------------------------------------------------------------
(* C14 *)

\* the matchers that end a conversation
TerminalMatchers == {"ExpectAlert", "ExpectClose"}

\* the nodes of tree t without children
Leaves(t) == {n \in DOMAIN t : t[n].children = <<>>}

\* the end of the chain of children that starts at the root of t
RECURSIVE LastChild(_, _)
LastChild(t, n) ==
    IF t[n].children = <<>> THEN n ELSE LastChild(t, Last(t[n].children))

\* C14: every conversation of the population has a Connect node as its
\* root, and every leaf of its tree is an ExpectAlert or an ExpectClose that
\* is the last node of the chain of children or the next_sibling of that
\* last node.
C14_ConnectRootTerminalLeaves ==
    \A k \in DOMAIN gen_conversations :
        LET t == gen_conversations[k].tree
            e == LastChild(t, 1)
        IN  /\ t[1].kind = "Connect"
            /\ \A n \in Leaves(t) :
                   /\ t[n].kind \in TerminalMatchers
                   /\ n = e \/ n = t[e].next_sibling

\* both toggles on: the population is built, a baseline ends in an
\* ExpectAlert with an ExpectClose as its next_sibling, and a mutated
\* conversation ends in an ExpectClose
C14_Witness ==
    /\ gen_pc = "built"
    /\ dhe /\ ems
    /\ LET t == gen_conversations["sanity w/ext"].tree
           e == LastChild(t, 1)
       IN  /\ t[e].kind = "ExpectAlert"
           /\ t[e].next_sibling # 0
           /\ t[t[e].next_sibling].kind = "ExpectClose"
    /\ LET t == gen_conversations[ExtensionsName(0)].tree
       IN  t[LastChild(t, 1)].kind = "ExpectClose"

-----------------------------------------------------------------------------
(* C15 *)

\* the run of a registered conversation failed, and the registry holds no
\* required substring for it or the substring occurs in the error text
ExpectedFailure(r) ==
    /\ ~r.res
    /\ r.name \in DOMAIN expected_failures
    /\ \/ expected_failures[r.name] = None
       \/ IsSubstring(expected_failures[r.name][1], r.exception)

\* the run failed and was not an expected failure
OtherFailure(r) == ~r.res /\ ~ExpectedFailure(r)

\* C15: XFAIL counts exactly the failed runs of registered conversations
\* with no required substring or with the substring in the error text; such
\* a run adds nothing to FAIL or to the failed listing, and a finished run
\* in which every execution passed or failed as expected ends with status 0
\* unless a registered conversation passed.
C15_ExpectedFailureIsXfail ==
    /\ xfail = Len(SelectSeq(results, ExpectedFailure))
    /\ bad = Len(SelectSeq(results, OtherFailure))
    /\ \A k \in Range(failed) :
           \E i \in DOMAIN results :
               results[i].name = k /\ OtherFailure(results[i])
    /\ (pc = "done"
          /\ \A i \in DOMAIN results :
                 IsPASS(results[i]) \/ ExpectedFailure(results[i]))
          => exit_status = Some(0)

\* a finished run with an expected failure of a conversation registered
\* without a message and one of a conversation registered with a message,
\* and exit status 0
C15_Witness ==
    /\ pc = "done"
    /\ exit_status = Some(0)
    /\ bad = 0 /\ failed = <<>>
    /\ \E i, j \in DOMAIN results :
           /\ ExpectedFailure(results[i])
           /\ expected_failures[results[i].name] = None
           /\ ExpectedFailure(results[j])
           /\ expected_failures[results[j].name] # None

-----------------------------------------------------------------------------
(* C16 *)

\* conversation c was built with an XOR mutation
XorMutated(c) == c.xors # NoFuzz

\* C16: for every conversation built with an XOR mutation of a type or
\* length byte, the number in its name is the original value of that byte
\* in the hello its generator serializes, XORed with the mutation value.
C16_NameNumberIsOriginalXorValue ==
    \A k \in DOMAIN gen_conversations :
        LET c == gen_conversations[k]
        IN  XorMutated(c) =>
                \A o \in DOMAIN c.xors :
                    c.number = Some(Xor(HelloByte(c.hello, o), c.xors[o]))

-----------------------------------------------------------------------------
(* C17 *)

\* C17: every execution adds one to exactly one of PASS, XFAIL, FAIL and
\* XPASS, so the four always sum to the number of executions, and at the
\* end to the reported TOTAL, the number of sampled conversations plus the
\* two sanity executions.
C17_CountersSumToTotal ==
    /\ good + xfail + bad + xpass = Len(executed)
    /\ good = Len(SelectSeq(results, IsPASS))
    /\ pc = "done" =>
          /\ total = Some(good + xfail + bad + xpass)
          /\ total = Some(Len(sampled_tests) + 2)

\* a finished run of four executions, one in each of the four classes
C17_Witness ==
    /\ pc = "done"
    /\ good = 1 /\ xfail = 1 /\ bad = 1 /\ xpass = 1
    /\ total = Some(4)

-----------------------------------------------------------------------------
(* C18 *)

\* number of entries of rs that satisfy Is and are executions of k
Executions(rs, Is(_), k) ==
    Cardinality({i \in DOMAIN rs : Is(rs[i]) /\ rs[i].name = k})

\* C18: in every state of the run loop the failed listing has one entry
\* per execution classified FAIL and the xpassed listing one entry per
\* execution classified XPASS, name by name, so their lengths are the FAIL
\* and the XPASS counts and no PASS or XFAIL execution is listed.
C18_ListingsMatchCounts ==
    /\ Len(failed) = bad
    /\ Len(xpassed) = xpass
    /\ \A k \in conversations :
           /\ Occurrences(failed, k) = Executions(results, IsFAIL, k)
           /\ Occurrences(xpassed, k) = Executions(results, IsXPASS, k)

\* in the run loop, after an expected failure and a pass that are on no
\* listing, a failure and an unexpected pass that are
C18_Witness ==
    /\ pc = "run"
    /\ Len(failed) = 1 /\ Len(xpassed) = 1
    /\ xfail >= 1 /\ good >= 1

====
